---- MODULE Spec2Model ----
(***************************************************************************)
(* Model of src/main.py: the crypto alert bot.                             *)
(*                                                                         *)
(* One asyncio event loop runs every coroutine of the process: the         *)
(* repeating job periodic_task and the command handlers.  A coroutine      *)
(* keeps the loop until it reaches an await that suspends (a Telegram      *)
(* send).  requests.get is a plain blocking call, so while run_bot is in   *)
(* fetch_crypto_data the loop runs nothing else.  One model action is one  *)
(* stretch of code between two suspension points.                          *)
(*                                                                         *)
(* Percentages are integers in hundredths of a percent (7.2% is 720), so   *)
(* the two-decimal rendering of the alert text is exact.                   *)
(***************************************************************************)
EXTENDS Integers, Sequences, FiniteSets, TLC

\* ------------------------------------------------------------------ bounds
MaxRecords == 3     \* longest list detect_patterns is called on by itself
MaxRunRecords == 1  \* longest provider response while the bot runs
MaxInbox == 1       \* updates waiting for dispatch
MaxUptime == 7384   \* longest uptime asked for, in seconds (2h 3m 4s)

\* --------------------------------------------------------------- constants
\* detect_patterns: "> 5" and "< -5", in hundredths of a percent
Threshold == 500

\* config["telegram"]["chat_id"] and ["owner_id"]
chat_id_cfg == "primary"
owner_id == "owner"

\* chats an update can come from: a user's chat, the operator's own chat,
\* and the primary chat itself
Chats == {"user", "owner", "primary"}

\* the two call sites of run_bot
Callers == {"periodic_task", "check"}

\* Optional value of a JSON number: None is <<>>, the number v is <<v>>
None == <<>>
Some(v) == <<v>>

Symbols == {"btc", "eth", "ada"}
ChangeValues == {-610, -500, 100, 500, 720}
Changes == {Some(v) : v \in ChangeValues} \cup {None}

\* one object of the provider's JSON array
Records == [symbol : Symbols, price_change_percentage_24h : Changes]

RECURSIVE SeqsUpTo(_, _)
SeqsUpTo(S, n) ==
    IF n = 0 THEN {<<>>}
    ELSE LET shorter == SeqsUpTo(S, n - 1)
         IN  shorter \cup {Append(s, x) : s \in {t \in shorter : Len(t) = n - 1}, x \in S}

\* what requests.get can come back with: a 2xx response with a JSON array,
\* a non-success status (raise_for_status raises HTTPError), or a network
\* failure (ConnectionError); both exceptions are RequestException
FetchFailures == {"503", "ConnectionError"}

\* the records the provider answers with when the bot runs: one asset, whose
\* change is a breakout, a breakdown, neither, or null
RunRecords ==
    {r \in Records : /\ r.symbol = "btc"
                     /\ r.price_change_percentage_24h \in
                            {Some(720), Some(-610), Some(100), None}}

Responses ==
    [ok : {TRUE}, cause : {""}, json : SeqsUpTo(RunRecords, MaxRunRecords)]
    \cup [ok : {FALSE}, cause : FetchFailures, json : {<<>>}]

\* str.upper() on the symbols
upper(s) == CASE s = "btc" -> "BTC" [] s = "eth" -> "ETH" [] s = "ada" -> "ADA" [] OTHER -> s

\* ------------------------------------------------------------ message text
\* A message is the sequence of its lines; a line is <<text, symbol, number>>.
HeaderLine == <<"Crypto Alerts", "", 0>>
BlankLine == <<"", "", 0>>
BreakoutLine(sym, chg) == <<"is breaking out! (+%)", upper(sym), chg>>
BreakdownLine(sym, chg) == <<"is breaking down! (%)", upper(sym), chg>>
NoAlertsMessage == << <<"No alerts found.", "", 0>> >>
ErrorMessage(cause) == << <<"Error in run_bot:", cause, 0>> >>

\* the message with a single "\n" after the header
AlertsMessageNoBlank(alerts) == <<HeaderLine>> \o alerts

\* "\n\n" after the header, "\n".join(alerts) after that
AlertsMessage(alerts) == <<HeaderLine, BlankLine>> \o alerts

\* run_bot: the text sent for the alerts detect_patterns returned
run_bot_message(alerts) ==
    IF alerts # <<>> THEN AlertsMessage(alerts) ELSE NoAlertsMessage

\* the configuration as loaded at import; crypto_list is the ids joined
Config0 ==
    [chat_id |-> chat_id_cfg, owner_id |-> owner_id,
     crypto_list |-> <<"bitcoin", "ethereum", "binancecoin", "cardano", "solana",
                       "ripple", "polkadot", "dogecoin", "avalanche-2", "matic-network">>]

\* --------------------------------------------------------- pure functions
\* fetch_crypto_data, after requests.get has returned or raised
fetch_crypto_data(resp) == IF resp.ok THEN resp.json ELSE <<>>

\* detect_patterns: [raised, alerts]; comparing None with 5 raises TypeError
RECURSIVE detect_loop(_, _, _)
detect_loop(data, i, alerts) ==
    IF i > Len(data) THEN [raised |-> FALSE, alerts |-> alerts]
    ELSE LET crypto == data[i]
             price_change_24h == crypto.price_change_percentage_24h
         IN  IF price_change_24h = None
             THEN [raised |-> TRUE, alerts |-> <<>>]
             ELSE IF price_change_24h[1] > Threshold
             THEN detect_loop(data, i + 1,
                      Append(alerts, BreakoutLine(crypto.symbol, price_change_24h[1])))
             ELSE IF price_change_24h[1] < -Threshold
             THEN detect_loop(data, i + 1,
                      Append(alerts, BreakdownLine(crypto.symbol, price_change_24h[1])))
             ELSE detect_loop(data, i + 1, alerts)

\* detect_patterns with each alert put in front of the list
detect_patterns_reversed(data) ==
    LET ret == detect_loop(data, 1, <<>>)
    IN  [ret EXCEPT !.alerts = [i \in 1..Len(@) |-> @[Len(@) + 1 - i]]]

detect_patterns(data) == detect_loop(data, 1, <<>>)

\* ------------------------------------------------------------------ state
VARIABLES
    inbox,      \* updates received from Telegram and not yet dispatched
    rb,         \* per caller: the current or last activation of run_bot
    hpc,        \* where the command handler being run stands ("idle": none)
    upd,        \* the update the handler was dispatched for
    hlog,       \* what the handler has done for upd, in order
    dp_arg,     \* detect_patterns called on its own: the argument
    dp_ret,     \* detect_patterns called on its own: the outcome
    dp_msg,     \* the message run_bot makes of dp_ret
    config,     \* the module-level config dict
    start_time, \* the module-level start_time
    pr,         \* the activation of the /price handler
    up,         \* the activation of the /uptime handler
    timer       \* the repeating job of the job queue

\* what the actions of one part of the program leave alone of the others
globals == <<config, start_time>>
detect_vars == <<dp_arg, dp_ret, dp_msg>>
other_handlers == <<pr, up, timer>>

vars == <<inbox, rb, hpc, upd, hlog, dp_arg, dp_ret, dp_msg, config, start_time,
          pr, up, timer>>

\* an activation of run_bot; for caller "check" it is the one made for upd
\*   pc       "none" | "fetching" | "sending" | "returned" | "raised"
\*   chat_id  the argument
\*   provider whether the provider answers the request in flight
\*   fetch    "none" | "failed" | "empty" | "records"; cause: the exception text
\*   data     the local variable data: what fetch_crypto_data returned
\*   trace    the calls run_bot has made, in order
\*   calls    the calls of send_telegram_message: [to, msg, result]
NoRun ==
    [pc |-> "none", chat_id |-> "", provider |-> "", fetch |-> "none", cause |-> "",
     data |-> <<>>, trace |-> <<>>, calls |-> <<>>]

NoUpdate == [cmd |-> "", chat_id |-> ""]
Updates == [cmd : {"check"}, chat_id : Chats] \cup [cmd : {"ping"}, chat_id : {"user"}]

NotRun == [raised |-> FALSE, alerts |-> << <<"not run", "", 0>> >>]
NotFormatted == << <<"not formatted", "", 0>> >>

\* the handlers and the timer before anything has run
\*   pc        "none" | "fetching" | "replying" | "done" | "raised"
\*   args      context.args; crypto_name: its first word in lower case
\*   requests  the calls of requests.get; resp: what the call came back with
\*   replies   the calls of reply_text: [text, result]
\*   in_except the reply awaited is the one of the except clause
\*   trace     the functions the handler has called, in order
NoResponse == [ok |-> FALSE, cause |-> "", has |-> FALSE, entry |-> None]
NoPrice ==
    [pc |-> "none", args |-> <<>>, crypto_name |-> "", requests |-> 0,
     resp |-> NoResponse, replies |-> <<>>, in_except |-> FALSE, trace |-> <<>>]
NoUptime == [pc |-> "none", elapsed |-> 0, hours |-> 0, minutes |-> 0, seconds |-> 0]
\* the job queue: whether run_repeating has been called, the seconds since
\* then (now), the time the job is due next, the times it was fired at
NoTimer == [started |-> FALSE, now |-> 0, due |-> 0, fires |-> <<>>]

\* the state of the module once imported, before the application runs
Imported ==
    /\ config = Config0
    /\ start_time = 0
    /\ inbox = <<>>
    /\ rb = [c \in Callers |-> NoRun]
    /\ hpc = "idle"
    /\ upd = NoUpdate
    /\ hlog = <<>>
    /\ dp_ret = NotRun
    /\ dp_msg = NotFormatted
    /\ pr = NoPrice
    /\ up = NoUptime
    /\ timer = NoTimer

\* Application.builder().token(api_key).build() returns or raises
BuildOutcomes == {"ok", "raise"}
\* bot.send_message / reply_text returns or raises
SendOutcomes == {"ok", "failed"}

\* the loop is not inside a blocking call
LoopFree == \A c \in Callers : rb[c].pc # "fetching"

Running(c) == rb[c].pc \in {"fetching", "sending"}

\* ------------------------------------------------------------- run_bot
\* run_bot entered: fetch_crypto_data issues requests.get (no timeout
\* argument), which blocks until the provider answers
run_bot_enter(chat, provider) ==
    [NoRun EXCEPT !.pc = "fetching", !.chat_id = chat, !.provider = provider,
                  !.trace = <<"fetch">>]

\* send_telegram_message up to its await: the client is built outside the
\* try; a build that raises leaves send_telegram_message with the exception
send_telegram_message(r, to, message, build) ==
    IF build = "ok"
    THEN [r EXCEPT !.pc = "sending",
                   !.trace = Append(@, "send"),
                   !.calls = Append(@, [to |-> to, msg |-> message, result |-> "pending"])]
    ELSE [r EXCEPT !.pc = "raised",
                   !.trace = Append(@, "send"),
                   !.calls = Append(@, [to |-> to, msg |-> message, result |-> "build_error"])]

\* the except clause of run_bot: the error goes to the operator; nothing
\* catches what this call raises
run_bot_except(r, cause, build) ==
    send_telegram_message(r, config.owner_id, ErrorMessage(cause), build)

\* run_bot with the detector called on whatever the fetch returned
run_bot_body_no_guard(r, resp, build1, build2) ==
    LET fetched == fetch_crypto_data(resp)
        r1 == [r EXCEPT !.fetch = IF ~resp.ok THEN "failed"
                                  ELSE IF resp.json = <<>> THEN "empty" ELSE "records",
                        !.cause = resp.cause,
                        !.data = fetched,
                        !.trace = Append(@, "detect")]
        found == detect_patterns(fetched)
    IN  IF found.raised
        THEN run_bot_except(r1, "TypeError", build2)
        ELSE LET r3 == send_telegram_message(r1, r.chat_id,
                                             run_bot_message(found.alerts), build1)
             IN  IF r3.pc = "raised"
                 THEN run_bot_except(r3, "BuildError", build2)
                 ELSE r3

\* run_bot from the return of requests.get to its first suspension or its end
run_bot_body(r, resp, build1, build2) ==
    LET fetched == fetch_crypto_data(resp)
        r1 == [r EXCEPT !.fetch = IF ~resp.ok THEN "failed"
                                  ELSE IF resp.json = <<>> THEN "empty" ELSE "records",
                        !.cause = resp.cause,
                        !.data = fetched]
    IN  IF fetched # <<>>
        THEN LET found == detect_patterns(fetched)
                 r2 == [r1 EXCEPT !.trace = Append(@, "detect")]
             IN  IF found.raised
                 THEN run_bot_except(r2, "TypeError", build2)
                 ELSE LET message == run_bot_message(found.alerts)
                          r3 == send_telegram_message(r2, r.chat_id, message, build1)
                      IN  IF r3.pc = "raised"
                          THEN run_bot_except(r3, "BuildError", build2)
                          ELSE r3
        ELSE [r1 EXCEPT !.pc = "returned"]

\* send_telegram_message after its await: the failure of the send is logged
\* and swallowed, and run_bot returns
send_returns(r, outcome) ==
    [r EXCEPT !.pc = "returned", !.calls[Len(r.calls)].result = outcome]

\* ------------------------------------------------------------- handlers
AckText == "Checking for alerts..."
DoneText == "Alerts sent. Check your notifications."
PongText == "Pong!"

\* check with run_bot called for the configured chat
check_chat_id_config(update) == chat_id_cfg

\* check: the chat run_bot is called for
check_chat_id(update) == update.chat_id

\* check with the completion reply made only when the cycle has delivered a
\* message to the chat it ran for
check_after_run_bot_if_delivered(r, log) ==
    IF r.pc = "returned"
    THEN IF \E i \in 1..Len(r.calls) : r.calls[i].to = r.chat_id /\ r.calls[i].result = "ok"
         THEN [hpc |-> "completion",
               hlog |-> log \o << <<"run_bot returned", r.chat_id>>, <<"reply", DoneText>> >>]
         ELSE [hpc |-> "idle", hlog |-> Append(log, <<"run_bot returned", r.chat_id>>)]
    ELSE IF r.pc = "raised"
    THEN [hpc |-> "idle", hlog |-> Append(log, <<"raised", "run_bot">>)]
    ELSE [hpc |-> "run_bot", hlog |-> log]

\* check after run_bot has come back: the completion reply is awaited next;
\* an exception out of run_bot ends the handler
check_after_run_bot(r, log) ==
    IF r.pc = "returned"
    THEN [hpc |-> "completion",
          hlog |-> log \o << <<"run_bot returned", r.chat_id>>, <<"reply", DoneText>> >>]
    ELSE IF r.pc = "raised"
    THEN [hpc |-> "idle", hlog |-> Append(log, <<"raised", "run_bot">>)]
    ELSE [hpc |-> "run_bot", hlog |-> log]

Init ==
    /\ Imported
    /\ dp_arg = <<>>

\* Telegram holds an update for the bot
ReceiveUpdate ==
    /\ Len(inbox) < MaxInbox
    /\ \E u \in Updates : inbox' = Append(inbox, u)
    /\ UNCHANGED <<rb, hpc, upd, hlog, detect_vars, globals, other_handlers>>

\* the job queue fires periodic_task, which calls run_bot for the primary
\* chat; run_repeating is given no max_instances, so the job is not started
\* again while its previous run has not ended
periodic_task ==
    /\ LoopFree
    /\ ~Running("periodic_task")
    /\ \E provider \in {"responds", "hangs"} :
           rb' = [rb EXCEPT !["periodic_task"] = run_bot_enter(config.chat_id, provider)]
    /\ UNCHANGED <<inbox, hpc, upd, hlog, detect_vars, globals, other_handlers>>

\* /check is dispatched: the acknowledgment reply is awaited.  The application
\* is built without concurrent_updates, so an update is dispatched only when
\* the handler of the previous one has ended (hpc = "idle")
check ==
    /\ LoopFree
    /\ hpc = "idle"
    /\ inbox # <<>>
    /\ Head(inbox).cmd = "check"
    /\ upd' = Head(inbox)
    /\ inbox' = Tail(inbox)
    /\ hpc' = "ack"
    /\ hlog' = << <<"reply", AckText>> >>
    /\ rb' = [rb EXCEPT !["check"] = NoRun]
    /\ UNCHANGED <<detect_vars, globals, other_handlers>>

\* the acknowledgment reply returns and check enters run_bot, or it raises
\* and the handler ends
check_ack_returns ==
    /\ LoopFree
    /\ hpc = "ack"
    /\ \E outcome \in SendOutcomes :
          IF outcome = "ok"
          THEN /\ \E provider \in {"responds", "hangs"} :
                      rb' = [rb EXCEPT !["check"] =
                                run_bot_enter(check_chat_id(upd), provider)]
               /\ hpc' = "run_bot"
               /\ hlog' = Append(hlog, <<"run_bot", check_chat_id(upd)>>)
          ELSE /\ hpc' = "idle"
               /\ hlog' = Append(hlog, <<"raised", "reply">>)
               /\ rb' = rb
    /\ UNCHANGED <<inbox, upd, detect_vars, globals, other_handlers>>

\* run_bot_fetched with run_bot keeping the chat it runs for in the
\* configuration
run_bot_fetched_writes_config(c) ==
    /\ rb[c].pc = "fetching"
    /\ rb[c].provider = "responds"
    /\ \E resp \in Responses, build1 \in BuildOutcomes, build2 \in BuildOutcomes :
          LET r == run_bot_body(rb[c], resp, build1, build2)
              h == check_after_run_bot(r, hlog)
          IN  /\ rb' = [rb EXCEPT ![c] = r]
              /\ IF c = "check"
                 THEN hpc' = h.hpc /\ hlog' = h.hlog
                 ELSE UNCHANGED <<hpc, hlog>>
    /\ config' = [config EXCEPT !.chat_id = rb[c].chat_id]
    /\ UNCHANGED <<inbox, upd, detect_vars, start_time, other_handlers>>

\* requests.get comes back in the activation of caller c; run_bot goes on to
\* its first await or to its end
run_bot_fetched(c) ==
    /\ rb[c].pc = "fetching"
    /\ rb[c].provider = "responds"
    /\ \E resp \in Responses, build1 \in BuildOutcomes, build2 \in BuildOutcomes :
          LET r == run_bot_body(rb[c], resp, build1, build2)
              h == check_after_run_bot(r, hlog)
          IN  /\ rb' = [rb EXCEPT ![c] = r]
              /\ IF c = "check"
                 THEN hpc' = h.hpc /\ hlog' = h.hlog
                 ELSE UNCHANGED <<hpc, hlog>>
    /\ UNCHANGED <<inbox, upd, detect_vars, globals, other_handlers>>

\* the send awaited in the activation of caller c comes back
run_bot_sent(c) ==
    /\ LoopFree
    /\ rb[c].pc = "sending"
    /\ \E outcome \in SendOutcomes :
          LET r == send_returns(rb[c], outcome)
              h == check_after_run_bot(r, hlog)
          IN  /\ rb' = [rb EXCEPT ![c] = r]
              /\ IF c = "check"
                 THEN hpc' = h.hpc /\ hlog' = h.hlog
                 ELSE UNCHANGED <<hpc, hlog>>
    /\ UNCHANGED <<inbox, upd, detect_vars, globals, other_handlers>>

\* the completion reply of check returns or raises
check_completion_returns ==
    /\ LoopFree
    /\ hpc = "completion"
    /\ \E outcome \in SendOutcomes :
          hlog' = IF outcome = "ok" THEN hlog ELSE Append(hlog, <<"raised", "reply">>)
    /\ hpc' = "idle"
    /\ UNCHANGED <<inbox, rb, upd, detect_vars, globals, other_handlers>>

\* /ping is dispatched: the reply is awaited
ping ==
    /\ LoopFree
    /\ hpc = "idle"
    /\ inbox # <<>>
    /\ Head(inbox).cmd = "ping"
    /\ upd' = Head(inbox)
    /\ inbox' = Tail(inbox)
    /\ hpc' = "pong"
    /\ hlog' = << <<"reply", PongText>> >>
    /\ rb' = [rb EXCEPT !["check"] = NoRun]
    /\ UNCHANGED <<detect_vars, globals, other_handlers>>

ping_returns ==
    /\ LoopFree
    /\ hpc = "pong"
    /\ \E outcome \in SendOutcomes :
          hlog' = IF outcome = "ok" THEN hlog ELSE Append(hlog, <<"raised", "reply">>)
    /\ hpc' = "idle"
    /\ UNCHANGED <<inbox, rb, upd, detect_vars, globals, other_handlers>>

Next ==
    \/ ReceiveUpdate
    \/ periodic_task
    \/ check
    \/ check_ack_returns
    \/ \E c \in Callers : run_bot_fetched(c)
    \/ \E c \in Callers : run_bot_sent(c)
    \/ check_completion_returns
    \/ ping
    \/ ping_returns

Spec == Init /\ [][Next]_vars

\* what the event loop and the job queue guarantee: a coroutine that can go
\* on does go on, a send comes back (the Telegram client has its own
\* timeouts), the timer fires.  Nothing makes a provider that stays silent
\* answer: run_bot_fetched needs provider = "responds".
Fairness ==
    /\ WF_vars(periodic_task)
    /\ WF_vars(check)
    /\ WF_vars(check_ack_returns)
    /\ WF_vars(check_completion_returns)
    /\ WF_vars(ping)
    /\ WF_vars(ping_returns)
    /\ \A c \in Callers : WF_vars(run_bot_fetched(c)) /\ WF_vars(run_bot_sent(c))

FairSpec == Init /\ [][Next]_vars /\ Fairness

\* --------------------------------------- detect_patterns called on its own
DetectInit ==
    /\ Imported
    /\ dp_arg \in SeqsUpTo(Records, MaxRecords)

detect_patterns_call ==
    /\ dp_ret = NotRun
    /\ dp_ret' = detect_patterns(dp_arg)
    /\ UNCHANGED <<inbox, rb, hpc, upd, hlog, dp_arg, dp_msg, globals, other_handlers>>

\* run_bot lines 92-96 on what detect_patterns returned
run_bot_message_call ==
    /\ dp_ret # NotRun
    /\ ~dp_ret.raised
    /\ dp_msg = NotFormatted
    /\ dp_msg' = run_bot_message(dp_ret.alerts)
    /\ UNCHANGED <<inbox, rb, hpc, upd, hlog, dp_arg, dp_ret, globals, other_handlers>>

DetectNext ==
    \/ detect_patterns_call
    \/ run_bot_message_call

DetectSpec == DetectInit /\ [][DetectNext]_vars

\* ------------------------------------------------------- the job queue
\* run_repeating(periodic_task, interval=300, first=0)
Interval == 300
First == 0

\* the clock is looked at every TickSeconds, up to MaxTime
TickSeconds == 100
MaxTime == 900

\* the next time of the interval trigger after now: the times are counted
\* from the first one, not from the end of a run
NextDue(due, now) == due + ((now - due) \div Interval + 1) * Interval

\* start_telegram_bot: the job is scheduled and the application runs
start_telegram_bot ==
    /\ ~timer.started
    /\ timer' = [started |-> TRUE, now |-> 0, due |-> First, fires |-> <<>>]
    /\ UNCHANGED <<inbox, rb, hpc, upd, hlog, detect_vars, globals, pr, up>>

\* time passes; it does not pass the due time of the job while the loop is
\* free to look at it, and it does while the loop is inside requests.get
Tick ==
    /\ timer.started
    /\ timer.now < MaxTime
    /\ ~(LoopFree /\ timer.due <= timer.now)
    /\ timer' = [timer EXCEPT !.now = @ + TickSeconds]
    /\ UNCHANGED <<inbox, rb, hpc, upd, hlog, detect_vars, globals, pr, up>>

\* the job is due and the loop runs the scheduler: periodic_task is called
job_queue_fire ==
    /\ timer.started
    /\ LoopFree
    /\ timer.due <= timer.now
    /\ ~Running("periodic_task")
    /\ \E provider \in {"responds", "hangs"} :
           rb' = [rb EXCEPT !["periodic_task"] = run_bot_enter(config.chat_id, provider)]
    /\ timer' = [timer EXCEPT !.fires = Append(@, timer.now),
                              !.due = NextDue(timer.due, timer.now)]
    /\ UNCHANGED <<inbox, hpc, upd, hlog, detect_vars, globals, pr, up>>

\* the job is due while its previous run has not ended, or the scheduler
\* comes to it after its time: the run is left out
job_queue_skip ==
    /\ timer.started
    /\ LoopFree
    /\ timer.due <= timer.now
    /\ Running("periodic_task") \/ timer.due < timer.now
    /\ timer' = [timer EXCEPT !.due = NextDue(timer.due, timer.now)]
    /\ UNCHANGED <<inbox, rb, hpc, upd, hlog, detect_vars, globals, pr, up>>

SchedNext ==
    \/ start_telegram_bot
    \/ Tick
    \/ job_queue_fire
    \/ job_queue_skip
    \/ run_bot_fetched("periodic_task")
    \/ run_bot_sent("periodic_task")

SchedSpec == Init /\ [][SchedNext]_vars

\* ---------------------------------------------------------------- price
\* what follows /price: nothing, or one word (the handler reads args[0])
PriceArgs == {<<>>, <<"bitcoin">>, <<"Bitcoin">>, <<"ethereum", "now">>, <<"unknownid">>}
lower(w) == CASE w = "Bitcoin" -> "bitcoin" [] OTHER -> w
capitalize(w) ==
    CASE w = "bitcoin" -> "Bitcoin"
      [] w = "ethereum" -> "Ethereum"
      [] w = "unknownid" -> "Unknownid"
      [] OTHER -> w

\* prices in thousandths of a USDT (64213.5 is 64213500); f"{price:.2f}"
\* rounds to hundredths (none of the prices is a tie)
Prices == {64213500, 1234, 1236}
TwoDecimals(price) == (price + 5) \div 10

\* The answer of simple/price for crypto_name: whether the object has the
\* key crypto_name (has) and, when it has, the "usd" of its value (entry):
\* a price, or None for a value without "usd".  Or the request fails.
PriceResponses ==
    [ok : {TRUE}, cause : {""}, has : {FALSE}, entry : {None}]
    \cup [ok : {TRUE}, cause : {""}, has : {TRUE},
          entry : {Some(p) : p \in Prices} \cup {None}]
    \cup [ok : {FALSE}, cause : FetchFailures, has : {FALSE}, entry : {None}]

UsageText == <<"Please specify a cryptocurrency. Example: /price bitcoin", "", 0>>
PriceText(name, price) ==
    <<"The current price of {} is {} USDT.", capitalize(name), TwoDecimals(price)>>
NotFoundText(name) == <<"Could not find data for {}.", capitalize(name), 0>>
PriceErrorText ==
    <<"An error occurred while fetching the price. Please try again later.", "", 0>>

\* reply_text called: the reply is awaited
price_reply(p, text, in_except) ==
    [p EXCEPT !.pc = "replying",
              !.in_except = in_except,
              !.trace = Append(@, "reply_text"),
              !.replies = Append(@, [text |-> text, result |-> "pending"])]

\* price with the request made before the argument is looked at
price_enter_request_first(args) ==
    [NoPrice EXCEPT !.pc = "fetching", !.args = args,
                    !.crypto_name = IF args # <<>> THEN lower(args[1]) ELSE "",
                    !.requests = 1, !.trace = <<"requests.get">>]

\* price lines 131-141: without an argument the usage hint is replied and
\* the handler returns after it; with one, requests.get is called
price_enter(args) ==
    IF args = <<>>
    THEN price_reply([NoPrice EXCEPT !.args = args], UsageText, FALSE)
    ELSE [NoPrice EXCEPT !.pc = "fetching", !.args = args,
                         !.crypto_name = lower(args[1]),
                         !.requests = 1, !.trace = <<"requests.get">>]

\* price lines 141-152, from the return of requests.get to the reply awaited:
\* a failed request, and a value without "usd" (KeyError), go to the except
\* clause
price_body(p, resp) ==
    LET p1 == [p EXCEPT !.resp = resp]
    IN  IF ~resp.ok THEN price_reply(p1, PriceErrorText, TRUE)
        ELSE IF resp.has
        THEN IF resp.entry = None
             THEN price_reply(p1, PriceErrorText, TRUE)
             ELSE price_reply(p1, PriceText(p.crypto_name, resp.entry[1]), FALSE)
        ELSE price_reply(p1, NotFoundText(p.crypto_name), FALSE)

\* the reply awaited comes back: a reply of the try block that raises goes to
\* the except clause, which replies the error text; a reply of the except
\* clause that raises leaves the handler
price_reply_returns(p, outcome) ==
    LET p1 == [p EXCEPT !.replies[Len(p.replies)].result = outcome]
    IN  IF outcome = "ok" THEN [p1 EXCEPT !.pc = "done"]
        ELSE IF p.in_except THEN [p1 EXCEPT !.pc = "raised"]
        ELSE price_reply(p1, PriceErrorText, TRUE)

\* /price is dispatched
price ==
    /\ pr.pc = "none"
    /\ \E args \in PriceArgs : pr' = price_enter(args)
    /\ UNCHANGED <<inbox, rb, hpc, upd, hlog, detect_vars, globals, up, timer>>

\* requests.get comes back
price_fetched ==
    /\ pr.pc = "fetching"
    /\ \E resp \in PriceResponses : pr' = price_body(pr, resp)
    /\ UNCHANGED <<inbox, rb, hpc, upd, hlog, detect_vars, globals, up, timer>>

\* the reply awaited comes back
price_replied ==
    /\ pr.pc = "replying"
    /\ \E outcome \in SendOutcomes : pr' = price_reply_returns(pr, outcome)
    /\ UNCHANGED <<inbox, rb, hpc, upd, hlog, detect_vars, globals, up, timer>>

PriceNext ==
    \/ price
    \/ price_fetched
    \/ price_replied

PriceSpec == Init /\ [][PriceNext]_vars

\* ------------------------------------------------------- uptime_command
\* minutes taken from all the seconds instead of the rest of the hour
uptime_minutes_of_total(uptime_seconds) == uptime_seconds \div 60

\* uptime_command lines 123-125, on int(time.time() - start_time)
uptime_hours(uptime_seconds) == uptime_seconds \div 3600
uptime_minutes(uptime_seconds) == (uptime_seconds % 3600) \div 60
uptime_rest_seconds(uptime_seconds) == uptime_seconds % 60

\* /uptime is dispatched when the clock reads now: the reply is awaited
uptime_command ==
    /\ up.pc = "none"
    /\ \E now \in start_time..(start_time + MaxUptime) :
          LET uptime_seconds == now - start_time
          IN  up' = [pc |-> "replying",
                     elapsed |-> uptime_seconds,
                     hours |-> uptime_hours(uptime_seconds),
                     minutes |-> uptime_minutes(uptime_seconds),
                     seconds |-> uptime_rest_seconds(uptime_seconds)]
    /\ UNCHANGED <<inbox, rb, hpc, upd, hlog, detect_vars, globals, pr, timer>>

\* the reply returns, or raises and ends the handler
uptime_replied ==
    /\ up.pc = "replying"
    /\ \E outcome \in SendOutcomes :
          up' = [up EXCEPT !.pc = IF outcome = "ok" THEN "done" ELSE "raised"]
    /\ UNCHANGED <<inbox, rb, hpc, upd, hlog, detect_vars, globals, pr, timer>>

UptimeNext ==
    \/ uptime_command
    \/ uptime_replied

UptimeSpec == Init /\ [][UptimeNext]_vars

\* ------------------------------------------------------------- properties
Finished(r) == r.pc \in {"returned", "raised"}

\* the sends an activation made: the calls that reached bot.send_message
SendCalls(r) == {i \in 1..Len(r.calls) : r.calls[i].result # "build_error"}
Sends(r) == {<<r.calls[i].to, r.calls[i].msg>> : i \in SendCalls(r)}
SentTo(r, chat) == \E i \in SendCalls(r) : r.calls[i].to = chat
MentionsCause(msg, cause) == \E i \in 1..Len(msg) : msg[i][2] = cause

\* C1: a cycle whose request failed and a cycle whose request succeeded with
\* zero records, run for the same chat, never make the same set of sends.
C1_FailureDiffersFromEmpty ==
    \A c1 \in Callers, c2 \in Callers :
        (/\ Finished(rb[c1]) /\ rb[c1].fetch = "failed"
         /\ Finished(rb[c2]) /\ rb[c2].fetch = "empty"
         /\ rb[c1].chat_id = rb[c2].chat_id)
        => Sends(rb[c1]) # Sends(rb[c2])

\* C2: a run_bot that has returned either sent to its chat_id, or sent to the
\* operator only; not both, and not neither.
C2_ExactlyOneOutcome ==
    \A c \in Callers :
        rb[c].pc = "returned" =>
            LET toDestination == SentTo(rb[c], rb[c].chat_id)
                onlyOperator == SentTo(rb[c], owner_id) /\ ~SentTo(rb[c], rb[c].chat_id)
            IN  /\ toDestination \/ onlyOperator
                /\ ~(toDestination /\ onlyOperator)
                /\ (rb[c].chat_id # owner_id /\ toDestination) => ~SentTo(rb[c], owner_id)

\* C3: a cycle whose fetch failed makes exactly one notify call, to the
\* operator, with a message that contains the cause of the failure.
C3_FetchFailureEscalated ==
    \A c \in Callers :
        (Finished(rb[c]) /\ rb[c].fetch = "failed") =>
            /\ Len(rb[c].calls) = 1
            /\ rb[c].calls[1].to = owner_id
            /\ MentionsCause(rb[c].calls[1].msg, rb[c].cause)

\* C4: run_bot never lets an exception out to its caller.
C4_NeverRaises == \A c \in Callers : rb[c].pc # "raised"

\* C5: when the send of the alert (or of "No alerts found.") to the chat_id of
\* the cycle has failed, the cycle has gone on to call the notifier for the
\* operator.
C5_SendFailureEscalated ==
    \A c \in Callers :
        \A i \in 1..Len(rb[c].calls) :
            (/\ rb[c].calls[i].to = rb[c].chat_id
             /\ rb[c].calls[i].msg[1][1] # "Error in run_bot:"
             /\ rb[c].calls[i].result = "failed")
            => \E j \in (i + 1)..Len(rb[c].calls) : rb[c].calls[j].to = owner_id

\* the number of records of the list with this symbol whose change is this number
Occurrences(list, sym, chg) ==
    Cardinality({i \in 1..Len(list) :
        /\ list[i].symbol = sym
        /\ list[i].price_change_percentage_24h = Some(chg)})
LinesEqual(lines, line) == Cardinality({i \in 1..Len(lines) : lines[i] = line})

\* the rule of detect_patterns on a list it has returned from: one breakout
\* line per record over the threshold, one breakdown line per record under
\* its negative, and no other line
ThresholdRule(list, ret) ==
    /\ ~ret.raised
    /\ \A sym \in Symbols, chg \in ChangeValues :
          /\ LinesEqual(ret.alerts, BreakoutLine(sym, chg)) =
                (IF chg > 500 THEN Occurrences(list, sym, chg) ELSE 0)
          /\ LinesEqual(ret.alerts, BreakdownLine(sym, chg)) =
                (IF chg < -500 THEN Occurrences(list, sym, chg) ELSE 0)
    /\ Len(ret.alerts) =
          Cardinality({i \in 1..Len(list) :
              \E chg \in ChangeValues :
                  /\ list[i].price_change_percentage_24h = Some(chg)
                  /\ (chg > 500 \/ chg < -500)})

\* C6: for every list of provider records detect_patterns emits exactly one
\* Breakout alert per record with change > 5, exactly one Breakdown alert per
\* record with change < -5, and none for -5 <= change <= 5.
C6_ThresholdRule == dp_ret # NotRun => ThresholdRule(dp_arg, dp_ret)

\* C6 on the lists in which every change is a number: there the rule holds.
C6_ThresholdRuleOnNumbers ==
    (/\ dp_ret # NotRun
     /\ \A i \in 1..Len(dp_arg) : dp_arg[i].price_change_percentage_24h # None)
    => ThresholdRule(dp_arg, dp_ret)

\* C7: while a cycle is in progress, a /ping that is next in line with no
\* other handler running can be dispatched.
C7_CommandsNotBlocked ==
    (/\ \E c \in Callers : Running(c)
     /\ hpc = "idle"
     /\ inbox # <<>>
     /\ Head(inbox).cmd = "ping")
    => ENABLED ping

\* C8: every fetch and every notify call in progress eventually returns, so
\* that the scheduled cycle ends and the scheduler can fire again.
C8_CallsReturn == \A c \in Callers : Running(c) ~> ~Running(c)

\* C9: a cycle whose fetch succeeded with an empty list calls the notifier
\* exactly once, for its chat_id, with the "No alerts found." text.
C9_EmptyFetchNotifies ==
    \A c \in Callers :
        (Finished(rb[c]) /\ rb[c].fetch = "empty") =>
            /\ Len(rb[c].calls) = 1
            /\ rb[c].calls[1].to = rb[c].chat_id
            /\ rb[c].calls[1].msg = NoAlertsMessage

\* the steps of a /check from this chat, in order
CheckSteps(chat) ==
    << <<"reply", AckText>>, <<"run_bot", chat>>,
       <<"run_bot returned", chat>>, <<"reply", DoneText>> >>
IsPrefix(s, t) == Len(s) <= Len(t) /\ \A i \in 1..Len(s) : s[i] = t[i]
NotRaised(e) == e[1] # "raised"

C13_LineCount ==
    (dp_msg # NotFormatted /\ dp_ret.alerts # <<>>)
    => Len(dp_msg) = Len(dp_ret.alerts) + 1

\* C13 as amended: the message has (number of alerts + 2) lines: the header
\* line, an empty line, then one line per alert in the order of the batch.
C13_LineCountWithBlank ==
    (dp_msg # NotFormatted /\ dp_ret.alerts # <<>>)
    => /\ Len(dp_msg) = Len(dp_ret.alerts) + 2
       /\ dp_msg[1] = HeaderLine
       /\ dp_msg[2] = BlankLine
       /\ \A i \in 1..Len(dp_ret.alerts) : dp_msg[i + 2] = dp_ret.alerts[i]

\* BTC +7.2, ETH -6.1, ADA +1.0: two alerts, a message of four lines
C13_Witness ==
    /\ dp_arg = << [symbol |-> "btc", price_change_percentage_24h |-> Some(720)],
                   [symbol |-> "eth", price_change_percentage_24h |-> Some(-610)],
                   [symbol |-> "ada", price_change_percentage_24h |-> Some(100)] >>
    /\ Len(dp_ret.alerts) = 2
    /\ dp_msg # NotFormatted
    /\ Len(dp_msg) = 4

\* C14: detect_patterns returns an alert list for every list of records the
\* provider can return, a record with a null change included; it never raises.
C14_Total == dp_ret # NotRun => ~dp_ret.raised

\* the alert detect_patterns makes of a record whose change is past a threshold
AlertOf(record) ==
    LET chg == record.price_change_percentage_24h[1]
    IN  IF chg > 0 THEN BreakoutLine(record.symbol, chg)
                   ELSE BreakdownLine(record.symbol, chg)

\* C18: the alerts detect_patterns returns are the alerts of records of its
\* argument taken in increasing position: same relative order, and no record
\* gives more than one alert.
C18_OrderKept ==
    (dp_ret # NotRun /\ ~dp_ret.raised)
    => \E f \in [1..Len(dp_ret.alerts) -> 1..Len(dp_arg)] :
          /\ \A j \in 1..Len(dp_ret.alerts), k \in 1..Len(dp_ret.alerts) :
                j < k => f[j] < f[k]
          /\ \A k \in 1..Len(dp_ret.alerts) :
                /\ dp_arg[f[k]].price_change_percentage_24h # None
                /\ dp_ret.alerts[k] = AlertOf(dp_arg[f[k]])

C18_Witness ==
    /\ dp_arg = << [symbol |-> "eth", price_change_percentage_24h |-> Some(-610)],
                   [symbol |-> "ada", price_change_percentage_24h |-> Some(100)],
                   [symbol |-> "btc", price_change_percentage_24h |-> Some(720)] >>
    /\ dp_ret.alerts = << BreakdownLine("eth", -610), BreakoutLine("btc", 720) >>

\* C19: for t whole seconds since start_time, t >= 0, /uptime reports h, m, s
\* with h*3600 + m*60 + s = t, 0 <= m < 60 and 0 <= s < 60.
C19_UptimeSplit ==
    up.pc # "none" =>
        /\ up.hours * 3600 + up.minutes * 60 + up.seconds = up.elapsed
        /\ up.hours >= 0
        /\ 0 <= up.minutes /\ up.minutes < 60
        /\ 0 <= up.seconds /\ up.seconds < 60

\* 3725 seconds are reported as 1h 2m 5s
C19_Witness ==
    /\ up.pc = "done"
    /\ up.elapsed = 3725
    /\ up.hours = 1 /\ up.minutes = 2 /\ up.seconds = 5

PriceFinished == pr.pc \in {"done", "raised"}

\* the reply the claim names for what the request came back with
PriceReplyFor(p) ==
    IF ~p.resp.ok THEN PriceErrorText
    ELSE IF p.resp.has /\ p.resp.entry # None
    THEN <<"The current price of {} is {} USDT.", capitalize(p.crypto_name),
           TwoDecimals(p.resp.entry[1])>>
    ELSE IF p.resp.has THEN <<"no reply named", "", 0>>
    ELSE NotFoundText(p.crypto_name)

\* C11: a /price with an argument makes exactly one reply and never raises:
\* the price with two decimals when the response has the id, the "not found"
\* text when it has not, the "error" text when the request fails; it calls
\* neither detect_patterns nor run_bot.
C11_PriceOneReply ==
    (PriceFinished /\ pr.args # <<>>) =>
        /\ pr.pc = "done"
        /\ Len(pr.replies) = 1
        /\ (pr.resp.ok /\ pr.resp.has) =>
              /\ pr.replies[1].text[1] = "The current price of {} is {} USDT."
              /\ pr.replies[1].text[2] = capitalize(pr.crypto_name)
        /\ (pr.resp.ok /\ ~pr.resp.has) => pr.replies[1].text = NotFoundText(pr.crypto_name)
        /\ ~pr.resp.ok => pr.replies[1].text = PriceErrorText
        /\ \A i \in 1..Len(pr.trace) : pr.trace[i] \notin {"detect_patterns", "run_bot"}

\* C11 where no reply_text raises and the value found has "usd": there the
\* handler does what the claim says.
C11_PriceOneReplyWhenSent ==
    (/\ PriceFinished /\ pr.args # <<>>
     /\ \A i \in 1..Len(pr.replies) : pr.replies[i].result = "ok"
     /\ (pr.resp.ok /\ pr.resp.has) => pr.resp.entry # None)
    => /\ pr.pc = "done"
       /\ Len(pr.replies) = 1
       /\ pr.replies[1].text = PriceReplyFor(pr)

\* C12: a /price without an argument replies the usage hint and makes no
\* request to the provider.
C12_NoArgumentNoRequest ==
    (pr.pc # "none" /\ pr.args = <<>>) =>
        /\ pr.requests = 0
        /\ pr.pc # "fetching"
        /\ pr.replies[1].text = UsageText
        /\ \A i \in 1..Len(pr.trace) : pr.trace[i] # "requests.get"

C12_Witness ==
    /\ pr.pc = "done"
    /\ pr.args = <<>>
    /\ Len(pr.replies) = 1
    /\ pr.replies[1] = [text |-> UsageText, result |-> "ok"]

\* the calls of send_telegram_message a cycle can make, given the data it
\* fetched itself and the chat it runs for
OwnCalls(r) ==
    LET found == detect_patterns(r.data)
    IN  IF found.raised
        THEN {[to |-> owner_id, msg |-> ErrorMessage("TypeError")]}
        ELSE {[to |-> r.chat_id, msg |-> run_bot_message(found.alerts)],
              [to |-> owner_id, msg |-> ErrorMessage("BuildError")]}

\* C16: no step of a cycle writes the configuration or start_time, a step
\* of one cycle leaves the other cycle as it is, and every message a cycle
\* sends is determined by the data that cycle fetched and the chat it runs for.
C16_NoSharedWrites ==
    [][/\ config' = config
       /\ start_time' = start_time
       /\ \A c \in Callers :
             rb'[c] # rb[c] =>
                /\ \A d \in Callers \ {c} : rb'[d] = rb[d]
                /\ \A i \in 1..Len(rb'[c].calls) :
                      [to |-> rb'[c].calls[i].to, msg |-> rb'[c].calls[i].msg]
                          \in OwnCalls(rb'[c])]_vars

C16_Witness ==
    /\ rb["periodic_task"].pc = "returned"
    /\ rb["check"].pc = "returned"
    /\ rb["check"].chat_id = "user"
    /\ rb["periodic_task"].data # rb["check"].data
    /\ Len(rb["periodic_task"].calls) = 1
    /\ Len(rb["check"].calls) = 1
    /\ rb["periodic_task"].calls[1].to = chat_id_cfg
    /\ rb["check"].calls[1].to = "user"
    /\ rb["periodic_task"].calls[1].msg # rb["check"].calls[1].msg
    /\ config = Config0
    /\ start_time = 0

\* C17: in a cycle the detector is called only once the fetch has returned,
\* a message goes to the destination only after the detector has been called,
\* and a cycle whose fetch failed never calls the detector.
C17_StepOrder ==
    \A c \in Callers :
        LET r == rb[c]
        IN  /\ r.pc # "none" => r.trace[1] = "fetch"
            /\ r.pc = "fetching" => r.trace = <<"fetch">>
            /\ \A i \in 1..Len(r.trace) :
                  /\ r.trace[i] = "fetch" => i = 1
                  /\ r.trace[i] = "detect" => i = 2 /\ r.fetch = "records"
                  /\ r.trace[i] = "send" => i > 2 /\ r.trace[2] = "detect"
            /\ r.fetch = "failed" =>
                  \A i \in 1..Len(r.trace) : r.trace[i] # "detect"

C17_Witness ==
    \E c \in Callers :
        /\ rb[c].pc = "returned"
        /\ rb[c].trace = <<"fetch", "detect", "send">>
        /\ rb[c].calls[1].to = rb[c].chat_id
        /\ rb[c].calls[1].result = "ok"

\* C20: whenever run_bot has returned to check, whatever the cycle did, the
\* completion reply is made right after the return.
C20_CompletionAfterEveryReturn ==
    rb["check"].pc = "returned" =>
        \E i \in 1..(Len(hlog) - 1) :
            /\ hlog[i] = <<"run_bot returned", rb["check"].chat_id>>
            /\ hlog[i + 1] = <<"reply", DoneText>>

\* the completion reply made, and come back, in a run whose cycle has sent
\* nothing to the requesting chat
C20_Witness ==
    /\ upd.cmd = "check"
    /\ hpc = "idle"
    /\ rb["check"].pc = "returned"
    /\ rb["check"].fetch = "failed"
    /\ rb["check"].calls = <<>>
    /\ hlog[Len(hlog)] = <<"reply", DoneText>>

\* C15: the first fire of the job is at the start, every later fire is one
\* interval after the fire before it, and every fire runs the cycle for the
\* configured chat.
C15_FiresOnSchedule ==
    /\ timer.fires # <<>> => timer.fires[1] = First
    /\ \A i \in 2..Len(timer.fires) : timer.fires[i] = timer.fires[i - 1] + Interval
    /\ timer.fires # <<>> => rb["periodic_task"].chat_id = chat_id_cfg

\* C15 without the spacing: the first fire is at the start, the fire number i
\* is not before the time number i of the trigger, and every fire runs the
\* cycle for the configured chat.
C15_FirstFireAndDestination ==
    /\ timer.fires # <<>> => timer.fires[1] = First
    /\ \A i \in 2..Len(timer.fires) : timer.fires[i] >= First + (i - 1) * Interval
    /\ timer.fires # <<>> => rb["periodic_task"].chat_id = chat_id_cfg

====
